---- MODULE Spec2Model ----
(***************************************************************************)
(* jder_axum JSON response builder: the builder state                      *)
(* (JsonResponseState), the failure/success builder operations and the     *)
(* finalizer create_json_response_fn, with the parts of the http crate     *)
(* the code relies on (HeaderMap, HeaderName/HeaderValue conversion,       *)
(* response::Builder) and serde_json's compact encoding of the envelope.   *)
(***************************************************************************)
EXTENDS Integers, Sequences, FiniteSets, TLC

VARIABLES
    pc,        \* "building" | "done" (create returned or panicked) | "panicked" (a builder call panicked)
               \* | "extract" | "extracted" (Host) | "error_builder" | "error_built"
    builder,   \* "success" | "failure": which entry point created the chain
    state,     \* the JsonResponseState the builder owns
    calls,     \* history: the builder calls made so far, in order
    response,  \* what create() produced (NoResponse while building)
    steps,     \* the Result-returning calls create() made, in order, with their outcome
    host,      \* Host::from_request_parts: the wrapped extractor's result and its own
    error_builder,  \* the JsonResponseErrorBuilder of a JsonResponseError::builder() chain
    field_error  \* what build() returned (None before)

vars == <<pc, builder, state, calls, response, steps, host, error_builder, field_error>>

(***************************************************************************)
(* Bounds of the model.                                                    *)
(***************************************************************************)
\* Builder calls per chain.
MaxOps == 3

\* Number of distinct header names a HeaderMap holds before try_append
\* answers MaxSizeReached (the http crate's limit, scaled down).
HeaderMapCapacity == 2

(***************************************************************************)
(* Option and Result values.                                               *)
(***************************************************************************)
None == <<>>

Some(x) == <<x>>

Ok(x) == [ok |-> TRUE, val |-> x]

Err == [ok |-> FALSE, val |-> <<>>]

(***************************************************************************)
(* Error codes (error.rs).                                                 *)
(***************************************************************************)
JsonResponseErrorCodes == {"Parse", "TooLarge", "Timeout", "Server", "Unknown"}

JsonResponseErrorCode_new == "Unknown"

\* Mutant of as_str: Timeout shares the string of Unknown.
as_str_timeout_as_unknown(c) ==
    CASE c = "Parse" -> "parse"
      [] c = "TooLarge" -> "too_large"
      [] c = "Timeout" -> "unknown"
      [] c = "Server" -> "server"
      [] c = "Unknown" -> "unknown"

as_str(c) ==
    CASE c = "Parse" -> "parse"
      [] c = "TooLarge" -> "too_large"
      [] c = "Timeout" -> "timeout"
      [] c = "Server" -> "server"
      [] c = "Unknown" -> "unknown"

\* Display: write!(f, "{}", self.as_str())
to_string(c) == as_str(c)

FAILURE_RESPONSE_DEFAULT ==
    "{\"success\":false,\"data\":null,\"errors\":[{\"code\":\"server\",\"path\":[],\"message\":\"Internal server error.\"}]}"

(***************************************************************************)
(* JsonResponseError and its builder (error.rs).                           *)
(***************************************************************************)
JsonResponseError_new ==
    [code |-> to_string(JsonResponseErrorCode_new), path |-> <<>>, message |-> None]

ErrorBuilder_code(e, c) == [e EXCEPT !.code = c]

ErrorBuilder_path(e, p) == [e EXCEPT !.path = p]

ErrorBuilder_message(e, m) == [e EXCEPT !.message = Some(m)]

\* JsonResponseErrorBuilder { error }
JsonResponseErrorBuilder_new ==
    [error |-> [code |-> to_string(JsonResponseErrorCode_new), path |-> <<>>,
                message |-> None]]

\* self.error.code = code.into(); self
JsonResponseErrorBuilder_code(b, c) == [b EXCEPT !.error.code = c]

\* Mutant of JsonResponseErrorBuilder_path: the segments extend the path.
JsonResponseErrorBuilder_path_extends(b, p) == [b EXCEPT !.error.path = @ \o p]

\* self.error.path = path.into_iter().map(|s| s.into()).collect(); self
JsonResponseErrorBuilder_path(b, p) ==
    [b EXCEPT !.error.path = [i \in 1..Len(p) |-> p[i]]]

\* self.error.message = Some(message.into()); self
JsonResponseErrorBuilder_message(b, m) == [b EXCEPT !.error.message = Some(m)]

JsonResponseErrorBuilder_build(b) == b.error

JsonResponseError_builder == JsonResponseErrorBuilder_new

(***************************************************************************)
(* serde_json::to_string of the envelope: compact, fields in declaration   *)
(* order.  The strings of this model hold no character JSON escapes.       *)
(***************************************************************************)
JsonBool(b) == IF b THEN "true" ELSE "false"

JsonString(s) == "\"" \o s \o "\""

RECURSIVE JsonJoin(_, _)
JsonJoin(items, i) ==
    IF i > Len(items) THEN ""
    ELSE IF i = Len(items) THEN items[i]
    ELSE items[i] \o "," \o JsonJoin(items, i + 1)

JsonArray(items) == "[" \o JsonJoin(items, 1) \o "]"

JsonOptionString(o) == IF o = None THEN "null" ELSE JsonString(o[1])

JsonError(e) ==
    "{\"code\":" \o JsonString(e.code)
        \o ",\"path\":" \o JsonArray([i \in 1..Len(e.path) |-> JsonString(e.path[i])])
        \o ",\"message\":" \o JsonOptionString(e.message) \o "}"

\* A payload is a ResponseData { name } whose Serialize impl either works
\* or reports an error (serde lets any impl fail).
SerializeData(d) ==
    IF d.encodable THEN Ok("{\"name\":" \o JsonString(d.name) \o "}") ELSE Err

\* Option<D>: None is null, Some(d) is d's own encoding.
SerializeOptionData(o) == IF o = None THEN Ok("null") ELSE SerializeData(o[1])

\* serde_json::to_string(&JsonResponse); `forced` is an injected failure.
serde_json_to_string(res, forced) ==
    LET d == SerializeOptionData(res.data) IN
    IF forced \/ ~d.ok THEN Err
    ELSE Ok("{\"success\":" \o JsonBool(res.success)
            \o ",\"data\":" \o d.val
            \o ",\"errors\":"
            \o JsonArray([i \in 1..Len(res.errors) |-> JsonError(res.errors[i])])
            \o "}")

(***************************************************************************)
(* The http crate as the code uses it.                                     *)
(***************************************************************************)
StatusCode_OK == 200

StatusCode_BAD_REQUEST == 400

StatusCode_NOT_FOUND == 404

StatusCode_INTERNAL_SERVER_ERROR == 500

Version_HTTP_11 == "HTTP/1.1"

Version_HTTP_3 == "HTTP/3"

\* header::CONTENT_TYPE
CONTENT_TYPE == "content-type"

\* HeaderName::try_from(&str): a token is accepted and lower-cased,
\* anything else (here: a name holding a space) is an error.
HeaderName_try_from(k) ==
    CASE k = "x-a" -> Ok("x-a")
      [] k = "x-b" -> Ok("x-b")
      [] k = "Content-Type" -> Ok("content-type")
      [] k = "content-type" -> Ok("content-type")
      [] OTHER -> Err

\* HeaderValue::try_from(&str): visible ASCII is accepted as is, a control
\* character (here: a line feed) is an error.
HeaderValue_try_from(v) ==
    IF v \in {"1", "2", "text/plain", "application/json"} THEN Ok(v) ELSE Err

\* HeaderMap: entries in insertion order of their names, each with the
\* values appended under that name (the first value, then the extra ones).
HeaderMap_new == <<>>

HeaderMap_contains(h, k) == \E i \in 1..Len(h) : h[i].name = k

\* HeaderMap::try_append: reserves room for one entry first, and answers
\* Err(MaxSizeReached) when the map cannot grow, also for a known name.
try_append(h, k, v) ==
    IF Len(h) >= HeaderMapCapacity THEN Err
    ELSE IF HeaderMap_contains(h, k)
         THEN Ok([i \in 1..Len(h) |->
                    IF h[i].name = k
                    THEN [h[i] EXCEPT !.values = Append(@, v)]
                    ELSE h[i]])
         ELSE Ok(Append(h, [name |-> k, values |-> <<v>>]))

\* An entry's items as IntoIterator yields them: the name with the first
\* value, None with each further value of that name.
EntryItems(e) ==
    [j \in 1..Len(e.values) |->
        [name |-> IF j = 1 THEN Some(e.name) ELSE None, value |-> e.values[j]]]

\* impl IntoIterator for HeaderMap: (Option<HeaderName>, T) items.
RECURSIVE into_iter(_)
into_iter(h) ==
    IF h = <<>> THEN <<>> ELSE EntryItems(Head(h)) \o into_iter(Tail(h))

\* Every (name, value) pair of a map, in iteration order.
RECURSIVE HeaderPairs(_)
HeaderPairs(h) ==
    IF h = <<>> THEN <<>>
    ELSE [j \in 1..Len(Head(h).values) |-> <<Head(h).name, Head(h).values[j]>>]
         \o HeaderPairs(Tail(h))

\* http::response::Builder: the first error is kept and reported by body().
Builder_new == [status |-> StatusCode_OK, version |-> "HTTP/1.1", headers |-> HeaderMap_new, err |-> FALSE]

Builder_status(b, s) == IF b.err THEN b ELSE [b EXCEPT !.status = s]

Builder_version(b, v) == IF b.err THEN b ELSE [b EXCEPT !.version = v]

Builder_header(b, k, v) ==
    IF b.err THEN b
    ELSE LET value == HeaderValue_try_from(v)
             h == try_append(b.headers, k, IF value.ok THEN value.val ELSE v)
         IN IF value.ok /\ h.ok THEN [b EXCEPT !.headers = h.val]
            ELSE [b EXCEPT !.err = TRUE]

\* Builder::body; `forced` is an injected failure.
Builder_body(b, body, forced) ==
    IF b.err \/ forced THEN Err
    ELSE Ok([kind |-> "response", status |-> b.status, version |-> b.version,
             headers |-> b.headers, body |-> body])

(***************************************************************************)
(* JsonResponseState (create.rs) and JsonResponse (response.rs).           *)
(***************************************************************************)
\* Mutant of JsonResponseState_success: the failure default status.
JsonResponseState_success_bad_request ==
    [status |-> StatusCode_BAD_REQUEST, version |-> Version_HTTP_11,
     header_map |-> HeaderMap_new, is_header_map_failed |-> FALSE,
     success |-> TRUE, data |-> None, errors |-> <<>>]

JsonResponseState_success ==
    [status |-> StatusCode_OK, version |-> Version_HTTP_11,
     header_map |-> HeaderMap_new, is_header_map_failed |-> FALSE,
     success |-> TRUE, data |-> None, errors |-> <<>>]

\* Mutant of JsonResponseState_failure: the success flag of success().
JsonResponseState_failure_success_true ==
    [status |-> StatusCode_BAD_REQUEST, version |-> Version_HTTP_11,
     header_map |-> HeaderMap_new, is_header_map_failed |-> FALSE,
     success |-> TRUE, data |-> None, errors |-> <<>>]

JsonResponseState_failure ==
    [status |-> StatusCode_BAD_REQUEST, version |-> Version_HTTP_11,
     header_map |-> HeaderMap_new, is_header_map_failed |-> FALSE,
     success |-> FALSE, data |-> None, errors |-> <<>>]

JsonResponse_new == [success |-> TRUE, data |-> None, errors |-> <<>>]

JsonResponse_success(r, s) == [r EXCEPT !.success = s]

JsonResponse_errors(r, es) == [r EXCEPT !.errors = es]

(***************************************************************************)
(* Builder operations (functions/failure.rs).  A Returned(st) is the       *)
(* builder handed back to the chain, Panicked(st) an unwinding call.       *)
(***************************************************************************)
Returned(st) == [panicked |-> FALSE, state |-> st]

Panicked(st) == [panicked |-> TRUE, state |-> st]

\* Mutant of status: the call also puts the version back to its default.
status_resets_version(st, s) == [st EXCEPT !.status = s, !.version = Version_HTTP_11]

status(st, s) == [st EXCEPT !.status = s]

version(st, v) == [st EXCEPT !.version = v]

\* Mutant of header: a successful append also clears the failure flag.
header_success_clears_flag(st, k, v) ==
    LET key == HeaderName_try_from(k)
        value == HeaderValue_try_from(v)
    IN  IF ~key.ok \/ ~value.ok
        THEN Returned([st EXCEPT !.is_header_map_failed = TRUE])
        ELSE LET appended == try_append(st.header_map, key.val, value.val)
             IN  IF appended.ok
                 THEN Returned([st EXCEPT !.header_map = appended.val,
                                          !.is_header_map_failed = FALSE])
                 ELSE Panicked(st)

header(st, k, v) ==
    LET key == HeaderName_try_from(k)
        value == HeaderValue_try_from(v)
    IN  IF ~key.ok THEN Returned([st EXCEPT !.is_header_map_failed = TRUE])
        ELSE IF ~value.ok THEN Returned([st EXCEPT !.is_header_map_failed = TRUE])
        ELSE LET appended == try_append(st.header_map, key.val, value.val)
             IN  IF appended.ok
                 THEN Returned([st EXCEPT !.header_map = appended.val])
                 ELSE Panicked(st)   \* try_append(..).unwrap()

RECURSIVE headers(_, _)
headers(st, list) ==
    IF list = <<>> THEN Returned(st)
    ELSE LET r == header(st, Head(list)[1], Head(list)[2])
         IN  IF r.panicked THEN r ELSE headers(r.state, Tail(list))

\* Mutant of errors: the list is extended, as error() does for each entry,
\* instead of replaced.
errors_appends(st, list) == [st EXCEPT !.errors = @ \o list]

errors(st, list) == [st EXCEPT !.errors = list]

add_errors(st, list) == [st EXCEPT !.errors = @ \o list]

add_error(st, e) == [st EXCEPT !.errors = Append(@, e)]

error(st, e) == [st EXCEPT !.errors = Append(@, e)]

\* JsonSuccessResponseFunctions::data (functions/success.rs).
data(st, d) == [st EXCEPT !.data = Some(d)]

(***************************************************************************)
(* The finalizer create_json_response_fn (functions/create.rs).            *)
(* `faults` is the set of Result-returning calls made to fail whatever     *)
(* their input is: {} is the libraries' own behaviour.                     *)
(***************************************************************************)
CONTENT_TYPE_JSON == "application/json"

FaultSteps == {"encode", "header_value", "build"}

NoResponse == [kind |-> "none", status |-> 0, version |-> "", headers |-> <<>>, body |-> ""]

\* create() unwinding instead of returning.
Panic == [kind |-> "panic", status |-> 0, version |-> "", headers |-> <<>>, body |-> ""]

Step(name, ok) == [step |-> name, ok |-> ok]

Outcome(res, st) == [response |-> res, steps |-> st]

\* Mutant of server_error: the fallback is built without its content type.
server_error_without_content_type ==
    Builder_body(Builder_status(Builder_new, StatusCode_INTERNAL_SERVER_ERROR),
                 FAILURE_RESPONSE_DEFAULT, FALSE)

\* lines 18-22, before the .unwrap()
server_error ==
    Builder_body(
        Builder_header(Builder_status(Builder_new, StatusCode_INTERNAL_SERVER_ERROR),
                       CONTENT_TYPE, CONTENT_TYPE_JSON),
        FAILURE_RESPONSE_DEFAULT, FALSE)

\* lines 27-32: JsonResponseError::new().code("parse").path(..).message(..)
header_map_error ==
    ErrorBuilder_message(
        ErrorBuilder_path(
            ErrorBuilder_code(JsonResponseError_new, as_str("Parse")),
            <<"response", "header_map">>),
        "Failed to create header map.")

\* Mutant of HeaderMapFailedPath: the response keeps the caller's status.
HeaderMapFailedPath_keeps_status(st, faults) ==
    LET res == JsonResponse_errors(JsonResponse_success(JsonResponse_new, FALSE),
                                   <<header_map_error>>)
        body == serde_json_to_string(res, "encode" \in faults)
        built == Builder_body(
                    Builder_header(Builder_status(Builder_new, st.status),
                                   CONTENT_TYPE, CONTENT_TYPE_JSON),
                    body.val, "build" \in faults)
    IN  IF ~body.ok
        THEN Outcome(server_error.val, <<Step("server_error", TRUE), Step("encode", FALSE)>>)
        ELSE IF ~built.ok
        THEN Outcome(server_error.val,
                     <<Step("server_error", TRUE), Step("encode", TRUE), Step("build", FALSE)>>)
        ELSE Outcome(built.val,
                     <<Step("server_error", TRUE), Step("encode", TRUE), Step("build", TRUE)>>)

\* lines 24-48: the branch taken when is_header_map_failed is set.
HeaderMapFailedPath(st, faults) ==
    LET res == JsonResponse_errors(JsonResponse_success(JsonResponse_new, FALSE),
                                   <<header_map_error>>)
        body == serde_json_to_string(res, "encode" \in faults)
        built == Builder_body(
                    Builder_header(Builder_status(Builder_new, StatusCode_BAD_REQUEST),
                                   CONTENT_TYPE, CONTENT_TYPE_JSON),
                    body.val, "build" \in faults)
    IN  IF ~body.ok
        THEN Outcome(server_error.val, <<Step("server_error", TRUE), Step("encode", FALSE)>>)
        ELSE IF ~built.ok
        THEN Outcome(server_error.val,
                     <<Step("server_error", TRUE), Step("encode", TRUE), Step("build", FALSE)>>)
        ELSE Outcome(built.val,
                     <<Step("server_error", TRUE), Step("encode", TRUE), Step("build", TRUE)>>)

\* lines 66-70: only the items that carry a name are pushed.
RECURSIVE PushHeaders(_, _)
PushHeaders(b, items) ==
    IF items = <<>> THEN b
    ELSE PushHeaders(
            IF Head(items).name # None
            THEN Builder_header(b, Head(items).name[1], Head(items).value)
            ELSE b,
            Tail(items))

\* lines 50-89: the branch taken when is_header_map_failed is clear.
NormalPath(st, faults) ==
    LET builder0 == Builder_version(Builder_status(Builder_new, st.status), st.version)
        value == IF "header_value" \in faults THEN Err
                 ELSE HeaderValue_try_from(CONTENT_TYPE_JSON)
        \* HeaderMap::append is try_append(..).expect(..)
        header_map == try_append(st.header_map, CONTENT_TYPE, value.val)
        builder1 == PushHeaders(builder0, into_iter(header_map.val))
        res == [success |-> st.success, data |-> st.data, errors |-> st.errors]
        body == serde_json_to_string(res, "encode" \in faults)
        built == Builder_body(builder1, body.val, "build" \in faults)
    IN  IF ~value.ok
        THEN Outcome(server_error.val,
                     <<Step("server_error", TRUE), Step("header_value", FALSE)>>)
        ELSE IF ~header_map.ok
        THEN Outcome(Panic, <<Step("server_error", TRUE), Step("header_value", TRUE)>>)
        ELSE IF ~body.ok
        THEN Outcome(server_error.val,
                     <<Step("server_error", TRUE), Step("header_value", TRUE),
                       Step("encode", FALSE)>>)
        ELSE IF ~built.ok
        THEN Outcome(server_error.val,
                     <<Step("server_error", TRUE), Step("header_value", TRUE),
                       Step("encode", TRUE), Step("build", FALSE)>>)
        ELSE Outcome(built.val,
                     <<Step("server_error", TRUE), Step("header_value", TRUE),
                       Step("encode", TRUE), Step("build", TRUE)>>)

\* Mutant of create_json_response_fn: the flag is looked at only after the
\* caller's envelope went through the normal path without a failure.
create_json_response_fn_flag_checked_last(st, faults) ==
    IF ~server_error.ok THEN Outcome(Panic, <<Step("server_error", FALSE)>>)
    ELSE LET normal == NormalPath(st, faults)
         IN  IF normal.response = server_error.val \/ ~st.is_header_map_failed
             THEN normal
             ELSE HeaderMapFailedPath(st, faults)

create_json_response_fn(st, faults) ==
    IF ~server_error.ok THEN Outcome(Panic, <<Step("server_error", FALSE)>>)
    ELSE IF st.is_header_map_failed THEN HeaderMapFailedPath(st, faults)
    ELSE NormalPath(st, faults)

(***************************************************************************)
(* Host::from_request_parts (extract/extra/host.rs).                       *)
(***************************************************************************)
\* The tuple structs Host(String) of axum_extra and of this crate.
Host(s) == <<s>>

\* Err(rej) of the wrapped extractor; rej has status() and body_text().
Rejected(rej) == [ok |-> FALSE, val |-> rej]

\* lines 46-49
host_error(rej) ==
    JsonResponseErrorBuilder_build(
        JsonResponseErrorBuilder_message(
            JsonResponseErrorBuilder_code(JsonResponseError_builder, as_str("Parse")),
            rej.body_text))

\* lines 43-50: the builder send() is called on.
host_failure(rej) ==
    error(status(JsonResponseState_failure, rej.status), host_error(rej))

\* Mutant of from_request_parts: the rejection's status is not passed on.
from_request_parts_default_status(inner, faults) ==
    IF inner.ok THEN Ok(Host(inner.val[1]))
    ELSE Rejected(create_json_response_fn(
                      error(JsonResponseState_failure, host_error(inner.val)), faults))

\* lines 37-53; the rejection is the outcome of send().
from_request_parts(inner, faults) ==
    IF inner.ok THEN Ok(Host(inner.val[1]))
    ELSE Rejected(create_json_response_fn(host_failure(inner.val), faults))

(***************************************************************************)
(* Inputs of the builder calls.                                            *)
(***************************************************************************)
StatusInputs == {StatusCode_OK, StatusCode_NOT_FOUND}

VersionInputs == {Version_HTTP_11, Version_HTTP_3}

\* (key, value) pairs: valid ones, a second value under a known name, a
\* caller's own content type, a key and a value that fail conversion.
HeaderInputs ==
    {<<"x-a", "1">>, <<"x-a", "2">>, <<"x-b", "1">>, <<"Content-Type", "text/plain">>,
     <<"bad name", "1">>, <<"x-a", "a\nb">>}

HeadersInputs ==
    {<<<<"x-a", "1">>, <<"bad name", "1">>, <<"x-b", "2">>>>,
     <<<<"x-a", "1">>, <<"x-a", "2">>>>}

DataInputs == {[name |-> "x", encodable |-> TRUE], [name |-> "y", encodable |-> FALSE]}

ErrA ==
    ErrorBuilder_message(
        ErrorBuilder_path(ErrorBuilder_code(JsonResponseError_new, "parse"),
                          <<"json", "title">>),
        "Invalid title")

ErrB == ErrorBuilder_code(JsonResponseError_new, "custom")

ErrC == ErrorBuilder_message(JsonResponseError_new, "late")

ErrorInputs == {ErrA, ErrC}

ErrorListInputs == {<<ErrA, ErrB>>, <<ErrC>>, <<>>}

\* Results of the wrapped Host extractor: a host name or a rejection.
HostInputs ==
    {Ok(Host("example.com")), Ok(Host("localhost:3000"))}
        \cup {Rejected([status |-> s, body_text |-> t]) :
                  s \in {StatusCode_BAD_REQUEST, StatusCode_NOT_FOUND},
                  t \in {"bad host", "No host found in request"}}

\* Arguments of the error builder's setters.
CodeInputs == {as_str(c) : c \in JsonResponseErrorCodes} \cup {"custom", ""}

PathInputs == {<<>>, <<"json", "title">>, <<"query">>}

MessageInputs == {"Invalid title", ""}

Call(op, arg) == [op |-> op, arg |-> arg]

(***************************************************************************)
(* The chain: CreateJsonResponse::success()/failure(), builder calls,      *)
(* create().                                                               *)
(***************************************************************************)
\* A handler starts a chain with success() or failure(), or the Host
\* extractor runs (its rejection arm starts from failure()).
Init ==
    /\ \/ pc = "building" /\ builder \in {"success", "failure"}
       \/ pc = "extract" /\ builder = "failure"
    /\ state = (IF builder = "success" THEN JsonResponseState_success
                ELSE JsonResponseState_failure)
    /\ calls = <<>>
    /\ response = NoResponse
    /\ steps = <<>>
    /\ host = None
    /\ error_builder = JsonResponseErrorBuilder_new
    /\ field_error = None

CanCall == pc = "building" /\ Len(calls) < MaxOps

\* A call that returns the builder.
Chain(call, st) ==
    /\ state' = st
    /\ calls' = Append(calls, call)
    /\ UNCHANGED <<pc, builder, response, steps, host, error_builder, field_error>>

\* A call that returns the builder or unwinds.
ChainOrPanic(call, r) ==
    /\ state' = r.state
    /\ calls' = Append(calls, call)
    /\ pc' = IF r.panicked THEN "panicked" ELSE pc
    /\ UNCHANGED <<builder, response, steps, host, error_builder, field_error>>

Status ==
    /\ CanCall
    /\ \E s \in StatusInputs : Chain(Call("status", s), status(state, s))

Version ==
    /\ CanCall
    /\ \E v \in VersionInputs : Chain(Call("version", v), version(state, v))

Header ==
    /\ CanCall
    /\ \E kv \in HeaderInputs :
          ChainOrPanic(Call("header", kv), header(state, kv[1], kv[2]))

Headers ==
    /\ CanCall
    /\ \E list \in HeadersInputs :
          ChainOrPanic(Call("headers", list), headers(state, list))

Data ==
    /\ CanCall
    /\ builder = "success"
    /\ \E d \in DataInputs : Chain(Call("data", d), data(state, d))

Errors ==
    /\ CanCall
    /\ builder = "failure"
    /\ \E list \in ErrorListInputs : Chain(Call("errors", list), errors(state, list))

AddErrors ==
    /\ CanCall
    /\ builder = "failure"
    /\ \E list \in ErrorListInputs :
          Chain(Call("add_errors", list), add_errors(state, list))

AddError ==
    /\ CanCall
    /\ builder = "failure"
    /\ \E e \in ErrorInputs : Chain(Call("add_error", <<e>>), add_error(state, e))

Error ==
    /\ CanCall
    /\ builder = "failure"
    /\ \E e \in ErrorInputs : Chain(Call("error", <<e>>), error(state, e))

\* create() (and the deprecated send(), which calls it).
Create(faultSets) ==
    /\ pc = "building"
    /\ \E faults \in faultSets :
          LET out == create_json_response_fn(state, faults)
          IN  /\ response' = out.response
              /\ steps' = out.steps
    /\ pc' = "done"
    /\ UNCHANGED <<builder, state, calls, host, error_builder, field_error>>

\* Host::from_request_parts: the wrapped extractor is called once, its
\* value is passed on or its rejection becomes a finalized failure response.
HostFromRequestParts(faultSets) ==
    /\ pc = "extract"
    /\ \E inner \in HostInputs, faults \in faultSets :
          LET result == from_request_parts(inner, faults)
          IN  /\ host' = Some([inner |-> inner,
                               result |-> IF result.ok THEN result
                                          ELSE Rejected(result.val.response)])
              /\ IF result.ok
                 THEN /\ pc' = "extracted"
                      /\ UNCHANGED <<state, calls, response, steps>>
                 ELSE /\ pc' = "done"
                      /\ state' = host_failure(inner.val)
                      /\ calls' = <<Call("status", inner.val.status),
                                    Call("error", <<host_error(inner.val)>>)>>
                      /\ response' = result.val.response
                      /\ steps' = result.val.steps
    /\ UNCHANGED <<builder, error_builder, field_error>>

BuilderCall ==
    \/ Status
    \/ Version
    \/ Header
    \/ Headers
    \/ Data
    \/ Errors
    \/ AddErrors
    \/ AddError
    \/ Error

CreateLibrary == Create({{}})

CreateFaulty == Create(SUBSET FaultSteps)

HostLibrary == HostFromRequestParts({{}})

HostFaulty == HostFromRequestParts(SUBSET FaultSteps)

Next == BuilderCall \/ CreateLibrary \/ HostLibrary

\* The collaborators behave as the libraries do.
Spec == Init /\ [][Next]_vars

NextFault == BuilderCall \/ CreateFaulty \/ HostFaulty

\* Any Result-returning call of create() may fail.
SpecFault == Init /\ [][NextFault]_vars

(***************************************************************************)
(* A JsonResponseError::builder() chain (error.rs).                        *)
(***************************************************************************)
InitError ==
    /\ pc = "error_builder"
    /\ builder = "failure"
    /\ state = JsonResponseState_failure
    /\ calls = <<>>
    /\ response = NoResponse
    /\ steps = <<>>
    /\ host = None
    /\ error_builder = JsonResponseError_builder
    /\ field_error = None

CanSet == pc = "error_builder" /\ Len(calls) < MaxOps

Set(call, b) ==
    /\ error_builder' = b
    /\ calls' = Append(calls, call)
    /\ UNCHANGED <<pc, builder, state, response, steps, host, field_error>>

ErrorBuilderCode ==
    /\ CanSet
    /\ \E c \in CodeInputs :
          Set(Call("code", c), JsonResponseErrorBuilder_code(error_builder, c))

ErrorBuilderPath ==
    /\ CanSet
    /\ \E p \in PathInputs :
          Set(Call("path", p), JsonResponseErrorBuilder_path(error_builder, p))

ErrorBuilderMessage ==
    /\ CanSet
    /\ \E m \in MessageInputs :
          Set(Call("message", m), JsonResponseErrorBuilder_message(error_builder, m))

ErrorBuilderBuild ==
    /\ pc = "error_builder"
    /\ field_error' = Some(JsonResponseErrorBuilder_build(error_builder))
    /\ pc' = "error_built"
    /\ UNCHANGED <<builder, state, calls, response, steps, host, error_builder>>

NextError ==
    \/ ErrorBuilderCode
    \/ ErrorBuilderPath
    \/ ErrorBuilderMessage
    \/ ErrorBuilderBuild

SpecError == InitError /\ [][NextError]_vars

(***************************************************************************)
(* Vocabulary of the properties.                                           *)
(***************************************************************************)
Done == pc = "done"

Range(seq) == {seq[i] : i \in 1..Len(seq)}

Count(x, seq) == Cardinality({i \in 1..Len(seq) : seq[i] = x})

Last(seq) == seq[Len(seq)]

ContentTypeJsonOnly == <<[name |-> "content-type", values |-> <<"application/json">>]>>

\* The fixed 500 fallback, written out.
FallbackResponse ==
    [kind |-> "response", status |-> 500, version |-> "HTTP/1.1",
     headers |-> ContentTypeJsonOnly,
     body |-> "{\"success\":false,\"data\":null,\"errors\":[{\"code\":\"server\",\"path\":[],\"message\":\"Internal server error.\"}]}"]

\* The fixed 400 header-error response, written out.
HeaderErrorResponse ==
    [kind |-> "response", status |-> 400, version |-> "HTTP/1.1",
     headers |-> ContentTypeJsonOnly,
     body |-> "{\"success\":false,\"data\":null,\"errors\":[{\"code\":\"parse\",\"path\":[\"response\",\"header_map\"],\"message\":\"Failed to create header map.\"}]}"]

Encodable(o) == o = None \/ o[1].encodable

\* The body the envelope {success, data, errors} of the state encodes to.
EnvelopeOf(st) ==
    serde_json_to_string([success |-> st.success, data |-> st.data, errors |-> st.errors],
                         FALSE).val

\* The caller's response: the state's status, version and envelope.
IsCallersResponse ==
    /\ response.kind = "response"
    /\ response.status = state.status
    /\ response.version = state.version
    /\ response.body = EnvelopeOf(state)

(***************************************************************************)
(* C1: finalization is total: whatever the builder calls were and whatever *)
(* the outcome of encoding, header-value construction and response         *)
(* construction is, create() returns a response (it never panics), and     *)
(* the response is the caller's, the fixed 400 header-error response or    *)
(* the fixed 500 fallback.                                                 *)
(***************************************************************************)
C1_FinalizationTotal ==
    Done =>
        /\ response.kind = "response"
        /\ \/ IsCallersResponse
           \/ response = HeaderErrorResponse
           \/ response = FallbackResponse

\* The same, of the finalizations that return: what is left of C1 once
\* the panic at the header map's size limit is set aside.
FinalizationOneOfThreeWhenReturned ==
    (Done /\ response.kind # "panic") =>
        \/ IsCallersResponse
        \/ response = HeaderErrorResponse
        \/ response = FallbackResponse

\* create() panics exactly on the normal path of a map at its size limit.
PanicOnlyAtSizeLimit ==
    (Done /\ response.kind = "panic") <=>
        (Done /\ ~state.is_header_map_failed
              /\ Len(state.header_map) >= HeaderMapCapacity
              /\ Step("header_value", FALSE) \notin Range(steps))

(***************************************************************************)
(* C2: a state whose header-failure flag is set finalizes to the fixed     *)
(* status-400 response with Content-Type application/json and the fixed    *)
(* header-error body, whatever its status, version, headers, success       *)
(* flag, payload and errors are.                                           *)
(***************************************************************************)
C2_HeaderFailureResponseFixed ==
    (Done /\ state.is_header_map_failed) => response = HeaderErrorResponse

\* A flagged failure chain with its own status and errors was finalized.
C2_Witness ==
    /\ Done
    /\ state.is_header_map_failed
    /\ state.status = 404
    /\ state.errors # <<>>
    /\ response = HeaderErrorResponse

(***************************************************************************)
(* C3: with the flag clear and an encodable payload, finalization returns  *)
(* a response with the state's status and version whose body is the        *)
(* envelope of the state's success flag, payload (null when absent) and    *)
(* errors in order; success().data(p).create() is 200 with data p, and     *)
(* failure().status(404).error(e).create() is 404 with errors [e].         *)
(***************************************************************************)
C3_NormalPathEnvelope ==
    /\ (Done /\ ~state.is_header_map_failed /\ Encodable(state.data))
            => IsCallersResponse
    /\ (Done /\ builder = "success"
             /\ calls = <<Call("data", [name |-> "x", encodable |-> TRUE])>>)
            => /\ response.kind = "response"
               /\ response.status = 200
               /\ response.body = "{\"success\":true,\"data\":{\"name\":\"x\"},\"errors\":[]}"
    /\ (Done /\ builder = "failure"
             /\ calls = <<Call("status", 404), Call("error", <<ErrA>>)>>)
            => /\ response.kind = "response"
               /\ response.status = 404
               /\ response.body = "{\"success\":false,\"data\":null,\"errors\":[{\"code\":\"parse\",\"path\":[\"json\",\"title\"],\"message\":\"Invalid title\"}]}"

\* The same, of the finalizations that return: what is left of C3 once
\* the panic at the header map's size limit is set aside.
NormalPathEnvelopeWhenReturned ==
    /\ (Done /\ ~state.is_header_map_failed /\ Encodable(state.data)
             /\ response.kind # "panic")
            => IsCallersResponse
    /\ (Done /\ builder = "success"
             /\ calls = <<Call("data", [name |-> "x", encodable |-> TRUE])>>)
            => /\ response.status = 200
               /\ response.body = "{\"success\":true,\"data\":{\"name\":\"x\"},\"errors\":[]}"
    /\ (Done /\ builder = "failure"
             /\ calls = <<Call("status", 404), Call("error", <<ErrA>>)>>)
            => /\ response.status = 404
               /\ response.body = "{\"success\":false,\"data\":null,\"errors\":[{\"code\":\"parse\",\"path\":[\"json\",\"title\"],\"message\":\"Invalid title\"}]}"

\* The entry the finalizer appends.
ContentTypeJsonPair == <<"content-type", "application/json">>

(***************************************************************************)
(* C4: with the flag clear and an encodable payload, the headers of the    *)
(* finalized response are exactly the entries of the state's header        *)
(* collection plus one Content-Type: application/json entry, every value   *)
(* appended under an already known name included.                          *)
(***************************************************************************)
C4_HeadersPreserved ==
    (Done /\ ~state.is_header_map_failed /\ Encodable(state.data)) =>
        /\ response.kind = "response"
        /\ LET got == HeaderPairs(response.headers)
               had == HeaderPairs(state.header_map)
           IN  \A p \in Range(got) \cup Range(had) \cup {ContentTypeJsonPair} :
                  Count(p, got) =
                      Count(p, had) + (IF p = ContentTypeJsonPair THEN 1 ELSE 0)

(***************************************************************************)
(* C5: every response finalization emits carries Content-Type:             *)
(* application/json; on the normal path it is added to the caller's        *)
(* headers and replaces nothing, so a caller's own Content-Type value and  *)
(* application/json are both in the response.                              *)
(***************************************************************************)
C5_ContentTypeJsonAlways ==
    (Done /\ response.kind = "response") =>
        /\ ContentTypeJsonPair \in Range(HeaderPairs(response.headers))
        /\ ~state.is_header_map_failed /\ IsCallersResponse =>
              \A p \in Range(HeaderPairs(state.header_map)) :
                  p[1] = "content-type" => p \in Range(HeaderPairs(response.headers))

(***************************************************************************)
(* C6: when encoding the envelope (on either path), constructing the       *)
(* content-type header value or constructing the response fails, the       *)
(* result is the one fallback: status 500, Content-Type application/json,  *)
(* body byte-equal to FAILURE_DEFAULT; the fallback is built first, and    *)
(* the failing step is the last fallible step that runs.                   *)
(***************************************************************************)
C6_FailuresEndInFallback ==
    (Done /\ \E i \in 1..Len(steps) : ~steps[i].ok) =>
        /\ response = FallbackResponse
        /\ steps[1] = Step("server_error", TRUE)
        /\ \A i \in 1..(Len(steps) - 1) : steps[i].ok
        /\ Last(steps).step \in FaultSteps

\* A payload that cannot be encoded reached the encoder on the normal path.
C6_Witness ==
    /\ Done
    /\ ~state.is_header_map_failed
    /\ ~Encodable(state.data)
    /\ Last(steps) = Step("encode", FALSE)
    /\ response = FallbackResponse

\* The error list the calls cs[1..n] leave: the argument of the last
\* errors(..) among them, then what the later calls appended.
RECURSIVE ErrorsAfter(_, _)
ErrorsAfter(cs, n) ==
    IF n = 0 THEN <<>>
    ELSE IF cs[n].op = "errors" THEN cs[n].arg
    ELSE IF cs[n].op \in {"add_errors", "add_error", "error"}
         THEN ErrorsAfter(cs, n - 1) \o cs[n].arg
    ELSE ErrorsAfter(cs, n - 1)

C8_FlagIsLatch ==
    /\ ~state.is_header_map_failed
    /\ [][state.is_header_map_failed => state'.is_header_map_failed]_vars
    /\ [](Done /\ state.is_header_map_failed => response = HeaderErrorResponse)

\* The flag was set by the first call, a valid header was added by a later
\* one, and the chain was finalized.
C8_Witness ==
    /\ Done
    /\ Len(calls) >= 2
    /\ calls[1] = Call("header", <<"bad name", "1">>)
    /\ Last(calls) = Call("header", <<"x-a", "1">>)
    /\ state.header_map # <<>>
    /\ state.is_header_map_failed

\* What a step that is the call header(kv[1], kv[2]) may change.
HeaderCallFrame(kv) ==
    LET key == HeaderName_try_from(kv[1])
        value == HeaderValue_try_from(kv[2])
    IN  /\ pc' = "building"
        /\ IF key.ok /\ value.ok
           THEN /\ LET had == HeaderPairs(state.header_map)
                       got == HeaderPairs(state'.header_map)
                       new == <<key.val, value.val>>
                   IN  \A p \in Range(had) \cup Range(got) \cup {new} :
                          Count(p, got) = Count(p, had) + (IF p = new THEN 1 ELSE 0)
                /\ [state' EXCEPT !.header_map = state.header_map] = state
           ELSE state' = [state EXCEPT !.is_header_map_failed = TRUE]

(***************************************************************************)
(* C9: header(key, value) with a key or value that fails conversion sets   *)
(* the flag, changes nothing else and returns the builder; when both       *)
(* conversions succeed exactly one entry (key, value) is added to the      *)
(* header collection and nothing else changes, the flag included.          *)
(***************************************************************************)
C9_HeaderFrame ==
    [][(calls' # calls /\ Last(calls').op = "header")
            => HeaderCallFrame(Last(calls').arg)]_vars

\* The same, of the calls that return: what is left of C9 once the panic
\* at the header map's size limit is set aside.
HeaderFrameWhenReturned ==
    [][(calls' # calls /\ Last(calls').op = "header" /\ pc' # "panicked")
            => HeaderCallFrame(Last(calls').arg)]_vars

(***************************************************************************)
(* C10: the builder chain is infallible: every builder call returns the    *)
(* builder, header and headers included, whatever the conversions do and   *)
(* also when the header collection is at its capacity.                     *)
(***************************************************************************)
C10_BuilderInfallible == pc # "panicked"

(***************************************************************************)
(* C11: the header-failure path is checked before every other step of      *)
(* finalization and wins over every other failure: a state with the flag   *)
(* set runs only the header-error envelope's encode and build (no content  *)
(* type value, no encoding of the caller's payload), and with a payload    *)
(* that cannot be encoded it still finalizes to the 400 header-error       *)
(* response, not to the 500 fallback.                                      *)
(***************************************************************************)
C11_HeaderFailureWins ==
    (Done /\ state.is_header_map_failed) =>
        /\ steps = <<Step("server_error", TRUE), Step("encode", TRUE), Step("build", TRUE)>>
        /\ ~Encodable(state.data) =>
              /\ response = HeaderErrorResponse
              /\ response # FallbackResponse

\* A chain with the flag set and an unencodable payload was finalized.
C11_Witness ==
    /\ Done
    /\ state.is_header_map_failed
    /\ state.data # None
    /\ ~Encodable(state.data)
    /\ response.status = 400

(***************************************************************************)
(* C12: the initial states are fixed: success() and dataless() create      *)
(* status 200, version HTTP/1.1, no headers, flag false, success true, no  *)
(* payload, no errors; failure() creates status 400, success false and the *)
(* same defaults. Finalized without a builder call they give status 200    *)
(* or 400, version HTTP/1.1, data null and errors [].                      *)
(***************************************************************************)
C12_InitialStatesFixed ==
    calls = <<>> =>
        /\ builder = "success" =>
              /\ state = [status |-> 200, version |-> "HTTP/1.1", header_map |-> <<>>,
                          is_header_map_failed |-> FALSE, success |-> TRUE,
                          data |-> <<>>, errors |-> <<>>]
              /\ Done =>
                    /\ response.kind = "response"
                    /\ response.status = 200
                    /\ response.version = "HTTP/1.1"
                    /\ response.body = "{\"success\":true,\"data\":null,\"errors\":[]}"
        /\ builder = "failure" =>
              /\ state = [status |-> 400, version |-> "HTTP/1.1", header_map |-> <<>>,
                          is_header_map_failed |-> FALSE, success |-> FALSE,
                          data |-> <<>>, errors |-> <<>>]
              /\ Done =>
                    /\ response.kind = "response"
                    /\ response.status = 400
                    /\ response.version = "HTTP/1.1"
                    /\ response.body = "{\"success\":false,\"data\":null,\"errors\":[]}"

\* success() was finalized without a builder call.
C12_Witness ==
    /\ Done
    /\ calls = <<>>
    /\ builder = "success"
    /\ response.status = 200

(***************************************************************************)
(* C13: the Host adapter calls the wrapped extractor once: its value is    *)
(* returned unchanged; its rejection becomes a finalized failure response  *)
(* with the rejection's status and a body with success false, data null    *)
(* and exactly one error: code "parse", empty path, message the            *)
(* rejection's body text (400 and "bad host" give 400 and that error).     *)
(***************************************************************************)
C13_HostAdapter ==
    host # None =>
        LET inner == host[1].inner
            result == host[1].result
        IN  /\ inner.ok =>
                  /\ pc = "extracted"
                  /\ result.ok
                  /\ result.val[1] = inner.val[1]
                  /\ response = NoResponse
            /\ ~inner.ok =>
                  /\ pc = "done"
                  /\ ~result.ok
                  /\ result.val = response
                  /\ response.kind = "response"
                  /\ response.status = inner.val.status
                  /\ response.body =
                        "{\"success\":false,\"data\":null,\"errors\":[{\"code\":\"parse\",\"path\":[],\"message\":\""
                            \o inner.val.body_text \o "\"}]}"
            /\ inner = Rejected([status |-> 400, body_text |-> "bad host"]) =>
                  /\ response.status = 400
                  /\ response.body =
                        "{\"success\":false,\"data\":null,\"errors\":[{\"code\":\"parse\",\"path\":[],\"message\":\"bad host\"}]}"

\* The wrapped extractor rejected with 404 and "bad host".
C13_Witness ==
    /\ host # None
    /\ host[1].inner = Rejected([status |-> 404, body_text |-> "bad host"])
    /\ response.status = 404
    /\ state.errors = <<[code |-> "parse", path |-> <<>>, message |-> <<"bad host">>]>>

\* The argument of the last call of op among cs[1..n], if any.
RECURSIVE LastCall(_, _, _)
LastCall(cs, n, op) ==
    IF n = 0 THEN None
    ELSE IF cs[n].op = op THEN Some(cs[n].arg)
    ELSE LastCall(cs, n - 1, op)

(***************************************************************************)
(* C14: building a field error never fails and validates nothing: a new    *)
(* builder holds code "unknown", an empty path and no message; code(c)     *)
(* stores any string, path(p) replaces the whole path, message(m) sets     *)
(* the message, each setter changes only its own field, and build()        *)
(* returns exactly the accumulated value.                                  *)
(***************************************************************************)
C14_ErrorBuilderAccumulates ==
    LET code == LastCall(calls, Len(calls), "code")
        path == LastCall(calls, Len(calls), "path")
        accumulated == [code |-> IF code = None THEN "unknown" ELSE code[1],
                        path |-> IF path = None THEN <<>> ELSE path[1],
                        message |-> LastCall(calls, Len(calls), "message")]
    IN  /\ pc \in {"error_builder", "error_built"}
        /\ error_builder = [error |-> accumulated]
        /\ pc = "error_builder" => field_error = None
        /\ pc = "error_built" => field_error = Some(accumulated)

\* A path was replaced, a code outside the enumeration stored, and the
\* error built.
C14_Witness ==
    /\ pc = "error_built"
    /\ calls = <<Call("path", <<"json", "title">>), Call("path", <<"query">>),
                 Call("code", "custom")>>
    /\ field_error = Some([code |-> "custom", path |-> <<"query">>, message |-> None])

(***************************************************************************)
(* C15: the error-code projection is total over {Parse, TooLarge,          *)
(* Timeout, Server, Unknown}: the codes map to "parse", "too_large",       *)
(* "timeout", "server", "unknown", five pairwise distinct strings; the     *)
(* default code is Unknown; the display of a code is its string code.      *)
(***************************************************************************)
C15_ErrorCodeProjection ==
    /\ JsonResponseErrorCodes = {"Parse", "TooLarge", "Timeout", "Server", "Unknown"}
    /\ as_str("Parse") = "parse" /\ to_string("Parse") = "parse"
    /\ as_str("TooLarge") = "too_large" /\ to_string("TooLarge") = "too_large"
    /\ as_str("Timeout") = "timeout" /\ to_string("Timeout") = "timeout"
    /\ as_str("Server") = "server" /\ to_string("Server") = "server"
    /\ as_str("Unknown") = "unknown" /\ to_string("Unknown") = "unknown"
    /\ Cardinality({as_str(c) : c \in JsonResponseErrorCodes}) = 5
    /\ JsonResponseErrorCode_new = "Unknown"
    /\ calls = <<>> => error_builder.error.code = "unknown"

\* The string of TooLarge was given to code(..).
C15_Witness ==
    /\ calls = <<Call("code", "too_large")>>
    /\ error_builder.error.code = "too_large"
    /\ "too_large" \in {as_str(c) : c \in JsonResponseErrorCodes}

\* The chain header(list[i]), header(list[i+1]), ... of single calls.
RECURSIVE HeaderChain(_, _, _)
HeaderChain(r, list, i) ==
    IF i > Len(list) \/ r.panicked THEN r
    ELSE HeaderChain(header(r.state, list[i][1], list[i][2]), list, i + 1)

\* A step that is the call headers(list) leaves what the chain of single
\* header calls leaves.
HeadersCallIsChain(list) ==
    LET chain == HeaderChain(Returned(state), list, 1)
    IN  /\ state' = chain.state
        /\ (pc' = "panicked") = chain.panicked

\* A step that is the call headers(list) appends every valid pair of the
\* list, sets the flag iff a pair is invalid, and returns the builder.
HeadersCallAppendsValid(list) ==
    LET ok(i) == /\ HeaderName_try_from(list[i][1]).ok
                 /\ HeaderValue_try_from(list[i][2]).ok
        pair(i) == <<HeaderName_try_from(list[i][1]).val,
                     HeaderValue_try_from(list[i][2]).val>>
        valid == {i \in 1..Len(list) : ok(i)}
        had == HeaderPairs(state.header_map)
        got == HeaderPairs(state'.header_map)
    IN  /\ pc' = "building"
        /\ \A i \in valid :
              Count(pair(i), got)
                 = Count(pair(i), had) + Cardinality({j \in valid : pair(j) = pair(i)})
        /\ state'.is_header_map_failed
              = (state.is_header_map_failed \/ valid # 1..Len(list))

IsCall(op) == Len(calls') = Len(calls) + 1 /\ Last(calls').op = op

(***************************************************************************)
(* C16: headers(list) is header applied to each pair in list order: a      *)
(* pair that fails conversion sets the flag and is dropped but does not    *)
(* stop the iteration, so every valid pair of the list, before or after    *)
(* an invalid one, is appended to the header collection, and the state     *)
(* equals that of the corresponding chain of single header calls.          *)
(***************************************************************************)
C16_HeadersIsHeaderChain ==
    [][IsCall("headers") =>
          /\ HeadersCallIsChain(Last(calls').arg)
          /\ HeadersCallAppendsValid(Last(calls').arg)]_vars

\* headers(list) and the chain of single calls agree always, a panic of
\* the chain included.
HeadersIsChainAlways ==
    [][IsCall("headers") => HeadersCallIsChain(Last(calls').arg)]_vars

\* Every valid pair is appended by the calls that return: what is left of
\* C16 once the panic at the header map's size limit is set aside.
HeadersAppendsValidWhenReturned ==
    [][(IsCall("headers") /\ pc' # "panicked")
            => HeadersCallAppendsValid(Last(calls').arg)]_vars

(***************************************************************************)
(* C17: each non-header builder operation changes only its own field:      *)
(* status(s) the status, version(v) the version, errors, add_errors,       *)
(* add_error and error the error list; header collection, flag, success    *)
(* flag and payload stay, and the last status or version call wins.        *)
(***************************************************************************)
C17_NonHeaderFrame ==
    /\ [][LET c == Last(calls')
          IN  /\ IsCall("status") => state' = [state EXCEPT !.status = c.arg]
              /\ IsCall("version") => state' = [state EXCEPT !.version = c.arg]
              /\ \A op \in {"errors", "add_errors", "add_error", "error"} :
                    IsCall(op) => [state' EXCEPT !.errors = state.errors] = state
              /\ \A op \in {"status", "version", "errors", "add_errors", "add_error",
                              "error"} :
                    IsCall(op) => pc' = "building"]_vars
    /\ [](LET s == LastCall(calls, Len(calls), "status")
              v == LastCall(calls, Len(calls), "version")
          IN  /\ s # None => state.status = s[1]
              /\ v # None => state.version = v[1])

\* A version call, then two status calls: the last status is kept and the
\* version is the one set.
C17_Witness ==
    /\ builder = "failure"
    /\ calls = <<Call("version", "HTTP/3"), Call("status", 404), Call("status", 200)>>
    /\ state.status = 200
    /\ state.version = "HTTP/3"

(***************************************************************************)
(* C18: in every state reachable from failure() the success flag is false  *)
(* and the payload absent, so every response finalized from a failure      *)
(* builder, on the normal, the header-failure or the fallback path, has a  *)
(* body with "success":false and "data":null.                              *)
(***************************************************************************)
C18_FailureNeverSucceeds ==
    builder = "failure" =>
        /\ ~state.success
        /\ state.data = None
        /\ (Done /\ response.kind = "response") =>
              \E es \in {state.errors,
                          <<[code |-> "parse", path |-> <<"response", "header_map">>,
                             message |-> <<"Failed to create header map.">>]>>,
                          <<[code |-> "server", path |-> <<>>,
                             message |-> <<"Internal server error.">>]>>} :
                 response.body =
                    "{\"success\":false,\"data\":null,\"errors\":"
                       \o JsonArray([i \in 1..Len(es) |-> JsonError(es[i])]) \o "}"

\* A failure chain with an error of its own ended in the fallback.
C18_Witness ==
    /\ Done
    /\ builder = "failure"
    /\ state.errors # <<>>
    /\ calls # <<>>
    /\ response = FallbackResponse

====
